---- MODULE Spec2Model ----
(***************************************************************************)
(* Dawid-Skene reviewer consensus (src/qa/dawid_skene.py).                 *)
(*                                                                         *)
(* run_dawid_skene is modelled as a sequential state machine: one action   *)
(* per block of the function, the loops over the set of items and the set  *)
(* of reviewers unrolled one element per step in the order the set is      *)
(* iterated in (a permutation chosen when the set is built, as the         *)
(* iteration order of a Python set of strings is not fixed by the code).   *)
(*                                                                         *)
(* Python floats are modelled as decimal floating-point numbers            *)
(* <<m, e>> = m * 10^e with a mantissa of Digits significant digits,       *)
(* rounded to nearest (ties to even) after every operation, as IEEE        *)
(* arithmetic rounds after every operation.                                *)
(***************************************************************************)
EXTENDS Integers, Sequences, FiniteSets, TLC

\* ------------------------------------------------------------------ floats

\* Significant decimal digits of the mantissa; MantLo = 10^(Digits-1) and
\* MantHi = 10^Digits bound a normalised mantissa: MantLo <= m < MantHi.
Digits == 4
MantLo == 1000
MantHi == 10000

RECURSIVE Pow10(_)
Pow10(n) == IF n <= 0 THEN 1 ELSE 10 * Pow10(n - 1)

\* n / d rounded to the nearest integer, ties to even (n >= 0, d > 0).
RoundDiv(n, d) ==
    LET q == n \div d
        r == n % d
    IN  IF 2 * r > d \/ (2 * r = d /\ q % 2 = 1) THEN q + 1 ELSE q

\* Number of decimal digits of n beyond Digits (0 when n < MantHi).
RECURSIVE Excess(_)
Excess(n) == IF n < MantHi THEN 0 ELSE 1 + Excess(n \div 10)

\* Number of decimal digits n lacks to reach MantLo (n > 0).
RECURSIVE Lack(_)
Lack(n) == IF n >= MantLo THEN 0 ELSE 1 + Lack(n * 10)

Zero == <<0, 0>>

\* The value of a singleton set. Only({e : x \in {v}}) is e with x bound to
\* the value of v, computed once: an operand or an intermediate result is
\* computed once, as the code computes it, however often it is used.
Only(S) == CHOOSE x \in S : TRUE

\* The float nearest to n * 10^e, for an integer n >= 0.
Norm(n, e) ==
    IF n = 0 THEN Zero
    ELSE IF n < MantLo THEN <<n * Pow10(Lack(n)), e - Lack(n)>>
    ELSE Only({IF q = MantHi THEN <<MantLo, e + k + 1>> ELSE <<q, e + k>> :
               k \in {Excess(n)}, q \in {RoundDiv(n, Pow10(Excess(n)))}})

One == <<MantLo, 1 - Digits>>
FromInt(n) == Norm(n, 0)

\* a < b
FLess(a, b) ==
    \E x \in {a}, y \in {b} :
        IF y[1] = 0 THEN FALSE
        ELSE IF x[1] = 0 THEN TRUE
        ELSE x[2] < y[2] \/ (x[2] = y[2] /\ x[1] < y[1])

FLeq(a, b) == \E x \in {a}, y \in {b} : x = y \/ FLess(x, y)

\* a * b
FMul(a, b) == Only({Norm(x[1] * y[1], x[2] + y[2]) : x \in {a}, y \in {b}})

\* a / b (b > 0)
FDiv(a, b) ==
    Only({IF x[1] = 0 THEN Zero
          ELSE LET k == IF x[1] >= y[1] THEN Digits - 1 ELSE Digits
               IN  Norm(RoundDiv(x[1] * Pow10(k), y[1]), x[2] - y[2] - k) :
          x \in {a}, y \in {b}})

\* a + b: exact sum of the two, rounded once. An operand more than Digits
\* decimal orders below the other is below half a unit in the last place.
FAdd(a, b) ==
    Only({IF x[1] = 0 THEN y
          ELSE IF y[1] = 0 THEN x
          ELSE LET hi == IF x[2] >= y[2] THEN x ELSE y
                   lo == IF x[2] >= y[2] THEN y ELSE x
                   d  == hi[2] - lo[2]
               IN  IF d > Digits THEN hi
                   ELSE Norm(hi[1] * Pow10(d) + lo[1], lo[2]) :
          x \in {a}, y \in {b}})

\* abs(a - b)
FAbsDiff(a, b) ==
    Only({IF x[1] = 0 THEN y
          ELSE IF y[1] = 0 THEN x
          ELSE LET hi == IF FLess(x, y) THEN y ELSE x
                   lo == IF FLess(x, y) THEN x ELSE y
                   d  == hi[2] - lo[2]
               IN  IF d > Digits THEN hi
                   ELSE Norm(hi[1] * Pow10(d) - lo[1], lo[2]) :
          x \in {a}, y \in {b}})

\* ------------------------------------------------------------------ constants

DEFAULT_LABELS == <<"PASS", "FIX", "REJECT">>
SMOOTHING == Norm(1, -3)
MAX_ITERATIONS == 50
EPS == Norm(1, -6)

ROUTING_THRESHOLDS ==
    ("PASS" :> Norm(80, -2)) @@ ("FIX" :> Norm(70, -2)) @@ ("REJECT" :> Norm(70, -2))

\* ------------------------------------------------------------------ inputs

\* Longest Review Ledger explored.
MaxReviews == 2

ItemIds == {"X1", "X2"}
ReviewerIds == {"r1", "r2"}
\* Labels a Review may carry: the default triad and "MAYBE", which is outside
\* the default Label Space and inside the custom one.
ObservedLabels == {"PASS", "FIX", "REJECT", "MAYBE"}

\* Review dataclass
Review == [item_id : ItemIds, reviewer_id : ReviewerIds, label : ObservedLabels]

\* The Label Spaces a caller passes: empty, the default, and a custom one whose
\* first label has no routing threshold.
LabelSpaces == {<<>>, DEFAULT_LABELS, <<"MAYBE", "PASS">>}

\* The ledgers explored: every sequence of at most MaxReviews Reviews, up to
\* the naming of items and reviewers (ids are opaque: the first Review names
\* the item "X1" and the reviewer "r1").
Ledgers ==
    {rs \in UNION {[1..n -> Review] : n \in 0..MaxReviews} :
        Len(rs) > 0 => rs[1].item_id = "X1" /\ rs[1].reviewer_id = "r1"}

Range(s) == {s[i] : i \in 1..Len(s)}

\* The orders a set can be iterated in.
Orders(S) == {s \in [1..Cardinality(S) -> S] : Range(s) = S}

\* ------------------------------------------------------------------ helpers

\* A dict held by value: the mapping f written out key by key, once.
Dict(f) == f @@ <<>>

\* sum(dist.values()): left fold over the first n keys, in key order.
RECURSIVE SumValues(_, _, _)
SumValues(dist, keys, n) ==
    IF n = 0 THEN Zero ELSE FAdd(SumValues(dist, keys, n - 1), dist[keys[n]])

\* _normalize with `dist[key] *= total` for `dist[key] *= inv_total`.
_normalizeByTotal(dist, keys) ==
    Only({Only({IF FLeq(total, Zero)
                THEN Dict([key \in Range(keys) |-> FDiv(One, FromInt(Len(keys)))])
                ELSE Dict([key \in Range(keys) |-> FMul(d[key], total)]) :
                total \in {SumValues(d, keys, Len(keys))}}) :
          d \in {dist}})

\* _normalize without the fallback of lines 54-58: a dict whose total is not
\* positive is left as it is.
_normalizeNoFallback(dist, keys) ==
    Only({Only({IF FLeq(total, Zero)
                THEN Dict(d)
                ELSE Only({Dict([key \in Range(keys) |-> FMul(d[key], inv_total)]) :
                           inv_total \in {FDiv(One, total)}}) :
                total \in {SumValues(d, keys, Len(keys))}}) :
          d \in {dist}})

\* _normalize(dist), the dict's keys being `keys` in insertion order; the
\* dict it leaves behind.
_normalize(dist, keys) ==
    Only({Only({IF FLeq(total, Zero)
                THEN Dict([key \in Range(keys) |-> FDiv(One, FromInt(Len(keys)))])
                ELSE Only({Dict([key \in Range(keys) |-> FMul(d[key], inv_total)]) :
                           inv_total \in {FDiv(One, total)}}) :
                total \in {SumValues(d, keys, Len(keys))}}) :
          d \in {dist}})

_initialize_priors(labels) ==
    Dict([label \in Range(labels) |-> FDiv(One, FromInt(Len(labels)))])

\* _initialize_confusion without the loop of lines 73-74: the rows are left
\* at 1.0 on the diagonal and SMOOTHING elsewhere, not normalised.
_initialize_confusion_raw(reviewers, labels) ==
    Dict([reviewer \in reviewers |->
            Dict([l \in Range(labels) |->
                    Dict([obs \in Range(labels) |->
                            IF obs = l THEN One ELSE SMOOTHING])])])

\* _initialize_confusion with every row uniform (no weight on the diagonal).
_initialize_confusion_uniform(reviewers, labels) ==
    Dict([reviewer \in reviewers |->
            Dict([l \in Range(labels) |->
                    _normalize([obs \in Range(labels) |-> One], labels)])])

_initialize_confusion(reviewers, labels) ==
    Only({Dict([reviewer \in reviewers |-> identity]) :
          identity \in {Dict([l \in Range(labels) |->
                                _normalize([obs \in Range(labels) |->
                                               IF obs = l THEN One ELSE SMOOTHING],
                                           labels)])}})

\* items = {review.item_id for review in reviews}
ItemsOf(rs) == {rs[i].item_id : i \in 1..Len(rs)}
\* reviewers = {review.reviewer_id for review in reviews}
ReviewersOf(rs) == {rs[i].reviewer_id : i \in 1..Len(rs)}

\* posteriors = {item: {label: 1.0 / len(labels) ...} ...}
InitialPosteriors(items, labels) ==
    Dict([item \in items |->
             Dict([label \in Range(labels) |-> FDiv(One, FromInt(Len(labels)))])])

\* Get falling back to the default for every observed label: the reviewer's
\* matrix is never read.
GetDefaultOnly(row, obs) == SMOOTHING

\* reviewer_matrix[label].get(review.label, SMOOTHING)
Get(row, obs) == IF obs \in DOMAIN row THEN row[obs] ELSE SMOOTHING

\* EStepScores over distinct (item, reviewer) pairs: a Review whose reviewer
\* has already reviewed the item earlier in the ledger is skipped.
RECURSIVE EStepScoresDistinctPairs(_, _, _, _, _, _)
EStepScoresDistinctPairs(item, rs, labels, pri, conf, n) ==
    IF n = 0 THEN Dict([label \in Range(labels) |-> pri[label]])
    ELSE Only({IF /\ rs[n].item_id = item
                  /\ ~\E k \in 1..(n - 1) : /\ rs[k].item_id = item
                                            /\ rs[k].reviewer_id = rs[n].reviewer_id
               THEN Dict([label \in Range(labels) |->
                            FMul(probs[label],
                                 Get(conf[rs[n].reviewer_id][label], rs[n].label))])
               ELSE probs :
               probs \in {EStepScoresDistinctPairs(item, rs, labels, pri, conf, n - 1)}})

\* EStepScores with `probs[label] = priors[label] * ...` for `probs[label] *= ...`:
\* each Review of the item overwrites the score, and only the last one counts.
RECURSIVE EStepScoresOverwrite(_, _, _, _, _, _)
EStepScoresOverwrite(item, rs, labels, pri, conf, n) ==
    IF n = 0 THEN Dict([label \in Range(labels) |-> pri[label]])
    ELSE IF rs[n].item_id = item
         THEN Dict([label \in Range(labels) |->
                      FMul(pri[label], Get(conf[rs[n].reviewer_id][label], rs[n].label))])
         ELSE EStepScoresOverwrite(item, rs, labels, pri, conf, n - 1)

\* E-step for one item: probs after the first n Reviews of the ledger, the
\* Reviews of other items filtered out.
RECURSIVE EStepScores(_, _, _, _, _, _)
EStepScores(item, rs, labels, pri, conf, n) ==
    IF n = 0 THEN Dict([label \in Range(labels) |-> pri[label]])
    ELSE Only({IF review.item_id = item
               THEN Dict([label \in Range(labels) |->
                            FMul(probs[label],
                                 Get(conf[review.reviewer_id][label], review.label))])
               ELSE probs :
               probs \in {EStepScores(item, rs, labels, pri, conf, n - 1)},
               review \in {rs[n]}})

EStepItem(item, rs, labels, pri, conf) ==
    _normalize(EStepScores(item, rs, labels, pri, conf, Len(rs)), labels)

\* max(...) of a non-empty set of floats
FMax(S) == CHOOSE x \in S : \A y \in S : FLeq(y, x)

\* min(...) of a non-empty set of floats
FMin(S) == CHOOSE x \in S : \A y \in S : FLeq(x, y)

\* Delta with min() for max(): the smallest absolute change.
DeltaMin(newp, oldp, items, labels) ==
    FMin({FAbsDiff(newp[item][label], oldp[item][label]) :
            item \in items, label \in Range(labels)})

Delta(newp, oldp, items, labels) ==
    FMax({FAbsDiff(newp[item][label], oldp[item][label]) :
            item \in items, label \in Range(labels)})

\* M-step, priors: the posteriors of the first n items (in dict order) added
\* up label by label.
RECURSIVE PriorSums(_, _, _, _)
PriorSums(post, order, labels, n) ==
    IF n = 0 THEN Dict([label \in Range(labels) |-> Zero])
    ELSE Only({Dict([label \in Range(labels) |->
                        FAdd(acc[label], post[order[n]][label])]) :
               acc \in {PriorSums(post, order, labels, n - 1)}})

MStepPriors(post, order, labels) ==
    _normalize(PriorSums(post, order, labels, Len(order)), labels)

\* InitialCounts with the counts started at 0.0, without the smoothing floor.
InitialCountsNoSmoothing(labels) ==
    Dict([label \in Range(labels) |-> Dict([obs \in Range(labels) |-> Zero])])

\* counts = {label: {obs: SMOOTHING for obs in labels} for label in labels}
InitialCounts(labels) ==
    Dict([label \in Range(labels) |-> Dict([obs \in Range(labels) |-> SMOOTHING])])

\* MStepCounts without the filter on reviewer_id: every Review of the ledger
\* is counted into every reviewer's matrix.
RECURSIVE MStepCountsAllReviewers(_, _, _, _, _)
MStepCountsAllReviewers(reviewer, rs, labels, post, n) ==
    IF n = 0 THEN InitialCounts(labels)
    ELSE Only({Dict([label \in Range(labels) |->
                        Dict([counts[label] EXCEPT
                                 ![review.label] = FAdd(@, post[review.item_id][label])])]) :
               counts \in {MStepCountsAllReviewers(reviewer, rs, labels, post, n - 1)},
               review \in {rs[n]}})

\* M-step, one reviewer: counts after the first n Reviews of the ledger, the
\* Reviews of other reviewers filtered out.
RECURSIVE MStepCounts(_, _, _, _, _)
MStepCounts(reviewer, rs, labels, post, n) ==
    IF n = 0 THEN InitialCounts(labels)
    ELSE Only({IF review.reviewer_id = reviewer
               THEN Dict([label \in Range(labels) |->
                            Dict([counts[label] EXCEPT
                                     ![review.label] = FAdd(@, post[review.item_id][label])])])
               ELSE counts :
               counts \in {MStepCounts(reviewer, rs, labels, post, n - 1)},
               review \in {rs[n]}})

\* counts[label][review.label] raises KeyError for a label outside the dict.
MStepKeyError(reviewer, rs, labels) ==
    \E i \in 1..Len(rs) :
        rs[i].reviewer_id = reviewer /\ rs[i].label \notin Range(labels)

MStepReviewer(reviewer, rs, labels, post) ==
    Only({Dict([label \in Range(labels) |-> _normalize(counts[label], labels)]) :
          counts \in {MStepCounts(reviewer, rs, labels, post, Len(rs))}})

\* ArgMax without the key function: max(probs.items())[0] compares the labels
\* themselves, and the greatest label name wins ("REJECT", or "PASS" against
\* "MAYBE"): the last label of each Label Space explored.
ArgMaxByName(probs, labels) == labels[Len(labels)]

\* ArgMax keeping the last of the maximal labels (a loop with `>=`).
ArgMaxLast(probs, labels) ==
    LET best == CHOOSE i \in 1..Len(labels) :
                    /\ \A j \in 1..Len(labels) : FLeq(probs[labels[j]], probs[labels[i]])
                    /\ \A j \in (i + 1)..Len(labels) : FLess(probs[labels[j]], probs[labels[i]])
    IN  labels[best]

\* max(probs.items(), key=lambda kv: kv[1])[0]: the first key, in dict order,
\* whose value no other key's value exceeds.
ArgMax(probs, labels) ==
    LET best == CHOOSE i \in 1..Len(labels) :
                    /\ \A j \in 1..Len(labels) : FLeq(probs[labels[j]], probs[labels[i]])
                    /\ \A j \in 1..(i - 1) : FLess(probs[labels[j]], probs[labels[i]])
    IN  labels[best]

\* Threshold with ROUTING_THRESHOLDS.get(label, 0.0).
ThresholdDefaultZero(label) ==
    IF label \in DOMAIN ROUTING_THRESHOLDS THEN ROUTING_THRESHOLDS[label] ELSE Zero

\* ROUTING_THRESHOLDS.get(label, 1.0)
Threshold(label) ==
    IF label \in DOMAIN ROUTING_THRESHOLDS THEN ROUTING_THRESHOLDS[label] ELSE One

\* NeedsSme with `<=` for `<`.
NeedsSmeInclusive(confidence, threshold) == FLeq(confidence, threshold)

\* needs_sme = confidence < threshold
NeedsSme(confidence, threshold) == FLess(confidence, threshold)

\* The ConsensusResult of one item.
Consensus(item, probs, labels) ==
    LET label == ArgMax(probs, labels)
        confidence == probs[label]
    IN  [item_id |-> item, label |-> label, posterior |-> probs,
         confidence |-> confidence,
         needs_sme |-> NeedsSme(confidence, Threshold(label))]

\* DawidSkeneModel dataclass
DawidSkeneModel(pri, conf) == [priors |-> pri, confusion_matrices |-> conf]

\* ------------------------------------------------------------------ state

VARIABLES
    reviews,         \* the Review Ledger passed by the caller
    labels,          \* the Label Space passed by the caller
    items,           \* the set of item ids, as the order it is iterated in
    reviewers,       \* the set of reviewer ids, as the order it is iterated in
    priors,          \* Dict[Label, float]
    confusion,       \* Dict[ReviewerID, Dict[Label, Dict[Label, float]]]
    posteriors,      \* Dict[ItemID, Dict[Label, float]]
    new_posteriors,  \* the dict the running E-step fills
    iteration,       \* iterations of the EM loop entered so far
    idx,             \* position of the running loop in items / reviewers
    pc,              \* the block of run_dawid_skene that runs next
    raised,          \* the name of the exception that ended the run, or ""
    results,         \* the returned List[ConsensusResult]
    model            \* the returned DawidSkeneModel

vars == <<reviews, labels, items, reviewers, priors, confusion, posteriors,
          new_posteriors, iteration, idx, pc, raised, results, model>>

\* Nothing is returned before the return statement runs.
NoModel == DawidSkeneModel(<<>>, <<>>)

Init ==
    /\ reviews \in Ledgers
    /\ labels \in LabelSpaces
    /\ items = <<>>
    /\ reviewers = <<>>
    /\ priors = <<>>
    /\ confusion = <<>>
    /\ posteriors = <<>>
    /\ new_posteriors = <<>>
    /\ iteration = 0
    /\ idx = 0
    /\ pc = "start"
    /\ raised = ""
    /\ results = <<>>
    /\ model = NoModel

\* ------------------------------------------------------------------ actions

\* ReturnEmpty with the early return placed after the initialisation of the
\* priors: the Model returned for an empty ledger holds the initial priors.
ReturnEmptyWithPriors ==
    /\ pc = "start"
    /\ Len(reviews) = 0
    /\ results' = <<>>
    /\ model' = DawidSkeneModel(_initialize_priors(labels), <<>>)
    /\ pc' = "done"
    /\ UNCHANGED <<reviews, labels, items, reviewers, priors, confusion, posteriors,
                   new_posteriors, iteration, idx, raised>>

\* if not reviews: return [], DawidSkeneModel({}, {})
ReturnEmpty ==
    /\ pc = "start"
    /\ Len(reviews) = 0
    /\ results' = <<>>
    /\ model' = DawidSkeneModel(<<>>, <<>>)
    /\ pc' = "done"
    /\ UNCHANGED <<reviews, labels, items, reviewers, priors, confusion, posteriors,
                   new_posteriors, iteration, idx, raised>>

\* Lines 83-91: the sets of items and reviewers, the initial priors, confusion
\* matrices and posteriors; then the first iteration of the loop is entered.
Initialize ==
    /\ pc = "start"
    /\ Len(reviews) > 0
    /\ \E io \in Orders(ItemsOf(reviews)), ro \in Orders(ReviewersOf(reviews)) :
          /\ items' = io
          /\ reviewers' = ro
    /\ priors' = _initialize_priors(labels)
    /\ confusion' = _initialize_confusion(ReviewersOf(reviews), labels)
    /\ posteriors' = InitialPosteriors(ItemsOf(reviews), labels)
    /\ new_posteriors' = <<>>
    /\ iteration' = 1
    /\ idx' = 1
    /\ pc' = "estep"
    /\ UNCHANGED <<reviews, labels, raised, results, model>>

\* EStep with `new_posteriors = posteriors` for `new_posteriors = {}`: the
\* E-step writes into the dict that holds the previous posteriors.
EStepInPlace ==
    /\ pc = "estep"
    /\ LET item == items[idx]
           probs == EStepItem(item, reviews, labels, priors, confusion)
       IN  /\ new_posteriors' = [i \in DOMAIN posteriors |->
                                    IF i = item THEN probs ELSE posteriors[i]]
           /\ posteriors' = new_posteriors'
    /\ IF idx < Len(items)
       THEN idx' = idx + 1 /\ pc' = "estep"
       ELSE idx' = 1 /\ pc' = "delta"
    /\ UNCHANGED <<reviews, labels, items, reviewers, priors, confusion,
                   iteration, raised, results, model>>

\* Lines 95-103, one pass of `for item in items`; the first pass of an
\* iteration starts from a fresh new_posteriors dict.
EStep ==
    /\ pc = "estep"
    /\ LET item == items[idx]
           filled == IF idx = 1 THEN <<>> ELSE new_posteriors
           probs == EStepItem(item, reviews, labels, priors, confusion)
       IN  new_posteriors' =
               [i \in (DOMAIN filled) \cup {item} |->
                   IF i = item THEN probs ELSE filled[i]]
    /\ IF idx < Len(items)
       THEN idx' = idx + 1 /\ pc' = "estep"
       ELSE idx' = 1 /\ pc' = "delta"
    /\ UNCHANGED <<reviews, labels, items, reviewers, priors, confusion, posteriors,
                   iteration, raised, results, model>>

\* Lines 105-113 without the break of lines 112-113: the loop ends only with
\* the iteration budget.
ConvergenceTestNoBreak ==
    /\ pc = "delta"
    /\ IF Len(labels) = 0
       THEN /\ raised' = "ValueError"
            /\ pc' = "raised"
            /\ UNCHANGED posteriors
       ELSE /\ posteriors' = new_posteriors
            /\ pc' = "mpriors"
            /\ UNCHANGED raised
    /\ UNCHANGED <<reviews, labels, items, reviewers, priors, confusion,
                   new_posteriors, iteration, idx, results, model>>

\* Lines 105-113: max() of an empty generator raises ValueError; otherwise the
\* new posteriors replace the old ones and the loop breaks on convergence.
ConvergenceTest ==
    /\ pc = "delta"
    /\ IF Len(labels) = 0
       THEN /\ raised' = "ValueError"
            /\ pc' = "raised"
            /\ UNCHANGED posteriors
       ELSE LET delta == Delta(new_posteriors, posteriors, Range(items), labels)
            IN  /\ posteriors' = new_posteriors
                /\ pc' = IF FLess(delta, EPS) THEN "decide" ELSE "mpriors"
                /\ UNCHANGED raised
    /\ UNCHANGED <<reviews, labels, items, reviewers, priors, confusion,
                   new_posteriors, iteration, idx, results, model>>

\* The posteriors of the items of the first n Reviews added up label by label,
\* one term per Review.
RECURSIVE PriorSumsPerReview(_)
PriorSumsPerReview(n) ==
    IF n = 0 THEN Dict([label \in Range(labels) |-> Zero])
    ELSE Only({Dict([label \in Range(labels) |->
                        FAdd(acc[label], posteriors[reviews[n].item_id][label])]) :
               acc \in {PriorSumsPerReview(n - 1)}})

\* Lines 116-120 looping over the Reviews instead of posteriors.values(): an
\* item weighs as many times as it has Reviews.
MStepPriorsStepPerReview ==
    /\ pc = "mpriors"
    /\ priors' = _normalize(PriorSumsPerReview(Len(reviews)), labels)
    /\ idx' = 1
    /\ pc' = "mconfusion"
    /\ UNCHANGED <<reviews, labels, items, reviewers, confusion, posteriors,
                   new_posteriors, iteration, raised, results, model>>

\* Lines 116-120.
MStepPriorsStep ==
    /\ pc = "mpriors"
    /\ priors' = MStepPriors(posteriors, items, labels)
    /\ idx' = 1
    /\ pc' = "mconfusion"
    /\ UNCHANGED <<reviews, labels, items, reviewers, confusion, posteriors,
                   new_posteriors, iteration, raised, results, model>>

\* Lines 122-130, one pass of `for reviewer in reviewers`; after the last
\* pass the loop goes on with the next iteration, or ends with the budget.
MStepConfusionStep ==
    /\ pc = "mconfusion"
    /\ LET reviewer == reviewers[idx]
       IN  IF MStepKeyError(reviewer, reviews, labels)
           THEN /\ raised' = "KeyError"
                /\ pc' = "raised"
                /\ UNCHANGED <<confusion, idx, iteration>>
           ELSE /\ confusion' = [confusion EXCEPT
                                    ![reviewer] = MStepReviewer(reviewer, reviews, labels, posteriors)]
                /\ UNCHANGED raised
                /\ IF idx < Len(reviewers)
                   THEN idx' = idx + 1 /\ pc' = "mconfusion" /\ UNCHANGED iteration
                   ELSE /\ idx' = 1
                        /\ IF iteration < MAX_ITERATIONS
                           THEN iteration' = iteration + 1 /\ pc' = "estep"
                           ELSE UNCHANGED iteration /\ pc' = "decide"
    /\ UNCHANGED <<reviews, labels, items, reviewers, priors, posteriors,
                   new_posteriors, results, model>>

\* Lines 132-149 followed by reviews.clear(): the caller's ledger is consumed.
DecideClearingLedger ==
    /\ pc = "decide"
    /\ results' = [i \in 1..Len(items) |-> Consensus(items[i], posteriors[items[i]], labels)]
    /\ model' = DawidSkeneModel(priors, confusion)
    /\ pc' = "done"
    /\ reviews' = <<>>
    /\ UNCHANGED <<labels, items, reviewers, priors, confusion, posteriors,
                   new_posteriors, iteration, idx, raised>>

\* Lines 132-149 emitting one ConsensusResult per Review instead of one per item.
DecidePerReview ==
    /\ pc = "decide"
    /\ results' = [i \in 1..Len(reviews) |->
                      Consensus(reviews[i].item_id, posteriors[reviews[i].item_id], labels)]
    /\ model' = DawidSkeneModel(priors, confusion)
    /\ pc' = "done"
    /\ UNCHANGED <<reviews, labels, items, reviewers, priors, confusion, posteriors,
                   new_posteriors, iteration, idx, raised>>

\* Lines 132-149: one ConsensusResult per entry of posteriors, in dict order,
\* and the Model.
Decide ==
    /\ pc = "decide"
    /\ results' = [i \in 1..Len(items) |-> Consensus(items[i], posteriors[items[i]], labels)]
    /\ model' = DawidSkeneModel(priors, confusion)
    /\ pc' = "done"
    /\ UNCHANGED <<reviews, labels, items, reviewers, priors, confusion, posteriors,
                   new_posteriors, iteration, idx, raised>>

Next ==
    \/ ReturnEmpty
    \/ Initialize
    \/ EStep
    \/ ConvergenceTest
    \/ MStepPriorsStep
    \/ MStepConfusionStep
    \/ Decide

Spec == Init /\ [][Next]_vars

\* The function body is sequential code: a call that has not returned or
\* raised always takes its next step.
SpecFair == Spec /\ WF_vars(Next)

\* ------------------------------------------------------------------ whole runs

\* One whole E-step: lines 95-103 for every item.
EStepAll(rs, labs, pri, conf) ==
    Dict([item \in ItemsOf(rs) |-> EStepItem(item, rs, labs, pri, conf)])

\* One whole M-step: lines 116-130.
MStepAll(rs, labs, io, ro, post) ==
    [priors |-> MStepPriors(post, io, labs),
     confusion |-> Dict([reviewer \in Range(ro) |->
                            MStepReviewer(reviewer, rs, labs, post)])]

\* The loop of lines 93-130 from its it-th iteration on, for a run that raises
\* nothing: the priors, confusion matrices and posteriors the loop ends with.
RECURSIVE EMLoop(_, _, _, _, _, _, _, _)
EMLoop(rs, labs, io, ro, pri, conf, post, it) ==
    Only({IF FLess(Delta(newp, post, ItemsOf(rs), labs), EPS)
          THEN [priors |-> pri, confusion |-> conf, posteriors |-> newp]
          ELSE Only({IF it < MAX_ITERATIONS
                     THEN EMLoop(rs, labs, io, ro, m.priors, m.confusion, newp, it + 1)
                     ELSE [priors |-> m.priors, confusion |-> m.confusion,
                           posteriors |-> newp] :
                     m \in {MStepAll(rs, labs, io, ro, newp)}}) :
          newp \in {EStepAll(rs, labs, pri, conf)}})

\* What run_dawid_skene(rs, labs) returns when its set of items is iterated in
\* the order io and its set of reviewers in the order ro (a non-empty ledger
\* and a run that raises nothing).
RunOutput(rs, labs, io, ro) ==
    LET end == EMLoop(rs, labs, io, ro, _initialize_priors(labs),
                      _initialize_confusion(ReviewersOf(rs), labs),
                      InitialPosteriors(ItemsOf(rs), labs), 1)
    IN  [results |-> [i \in 1..Len(io) |-> Consensus(io[i], end.posteriors[io[i]], labs)],
         model |-> DawidSkeneModel(end.priors, end.confusion)]

\* ------------------------------------------------------------------ decision stage alone

\* Posterior masses the decision stage is tried on: the tenths, and the
\* thresholds less one unit in the last place with their complements.
Masses ==
    {Norm(k, -1) : k \in 0..10} \cup
    {Norm(6999, -4), Norm(3001, -4), Norm(7999, -4), Norm(2001, -4)}

GridPosteriors(labs) ==
    {d \in [Range(labs) -> Masses] : SumValues(d, labs, Len(labs)) = One}

\* The state before line 132 of a run over one item whose final posterior is
\* any distribution of the grid.
DecisionInit ==
    /\ labels \in LabelSpaces \ {<<>>}
    /\ items = <<"X1">>
    /\ reviewers = <<"r1">>
    /\ reviews = <<[item_id |-> "X1", reviewer_id |-> "r1", label |-> labels[1]]>>
    /\ priors = _initialize_priors(labels)
    /\ confusion = _initialize_confusion({"r1"}, labels)
    /\ posteriors \in [{"X1"} -> GridPosteriors(labels)]
    /\ new_posteriors = posteriors
    /\ iteration = 1
    /\ idx = 1
    /\ pc = "decide"
    /\ raised = ""
    /\ results = <<>>
    /\ model = NoModel

DecisionNext == Decide

SpecDecision == DecisionInit /\ [][DecisionNext]_vars

\* ------------------------------------------------------------------ _normalize alone

\* Values of the dict handed to _normalize: zero, a mass that vanishes next
\* to 1.0, the smoothing floor, fractions, one, and a count above one.
NormalizeInputs ==
    {Zero, Norm(1, -30), SMOOTHING, Norm(25, -2), Norm(5, -1), One, Norm(3, 0)}

\* The state before line 116 of a run over one item, the sums that line 120
\* normalises being any dict of these values over the Label Space: the sums
\* over one item are the item's masses themselves.
NormalizeInit ==
    /\ labels \in LabelSpaces \ {<<>>}
    /\ items = <<"X1">>
    /\ reviewers = <<"r1">>
    /\ reviews = <<[item_id |-> "X1", reviewer_id |-> "r1", label |-> labels[1]]>>
    /\ priors = _initialize_priors(labels)
    /\ confusion = _initialize_confusion({"r1"}, labels)
    /\ posteriors \in [{"X1"} -> [Range(labels) -> NormalizeInputs]]
    /\ new_posteriors = posteriors
    /\ iteration = 1
    /\ idx = 1
    /\ pc = "mpriors"
    /\ raised = ""
    /\ results = <<>>
    /\ model = NoModel

NormalizeNext == MStepPriorsStep

SpecNormalize == NormalizeInit /\ [][NormalizeNext]_vars

\* ------------------------------------------------------------------ scenario ledgers

\* Review(item_id, reviewer_id, label)
ReviewOf(item, reviewer, label) ==
    [item_id |-> item, reviewer_id |-> reviewer, label |-> label]

\* Three reviewers label the item identically.
UnanimousReviews(item, label) ==
    <<ReviewOf(item, "r1", label), ReviewOf(item, "r2", label), ReviewOf(item, "r3", label)>>

\* Two of three reviewers review item "X2": one says a, the other says b.
SplitReviews(a, b) == <<ReviewOf("X2", "r1", a), ReviewOf("X2", "r2", b)>>

\* Ledgers of three reviewers over the items "X1" and "X2": the unanimous
\* ledger, the split ledger (in either order of the two labels), the split
\* ledger after the unanimous one, and the split ledger followed by one
\* Review of "X1" by any of the three reviewers.
ScenarioLedgers ==
    LET L == Range(DEFAULT_LABELS)
        Splits == {SplitReviews("FIX", "REJECT"), SplitReviews("REJECT", "FIX")}
    IN  {UnanimousReviews("X1", l) : l \in L}
        \cup Splits
        \cup {UnanimousReviews("X1", l) \o s : l \in L, s \in Splits}
        \cup {s \o <<ReviewOf("X1", r, l)>> : s \in Splits, r \in {"r1", "r2", "r3"}, l \in L}

\* A call run_dawid_skene(reviews) with the default Label Space.
ScenarioInit ==
    /\ reviews \in ScenarioLedgers
    /\ labels = DEFAULT_LABELS
    /\ items = <<>>
    /\ reviewers = <<>>
    /\ priors = <<>>
    /\ confusion = <<>>
    /\ posteriors = <<>>
    /\ new_posteriors = <<>>
    /\ iteration = 0
    /\ idx = 0
    /\ pc = "start"
    /\ raised = ""
    /\ results = <<>>
    /\ model = NoModel

\* The steps of a run on a non-empty ledger.
ScenarioNext ==
    \/ Initialize
    \/ EStep
    \/ ConvergenceTest
    \/ MStepPriorsStep
    \/ MStepConfusionStep
    \/ Decide

SpecScenarios == ScenarioInit /\ [][ScenarioNext]_vars

\* ------------------------------------------------------------------ properties

\* The run is over a non-empty ledger whose labels all lie in a non-empty
\* Label Space.
ValidRun ==
    /\ Len(reviews) > 0
    /\ Len(labels) > 0
    /\ \A i \in 1..Len(reviews) : reviews[i].label \in Range(labels)

HasUnknownLabel == \E i \in 1..Len(reviews) : reviews[i].label \notin Range(labels)

Returned == pc = "done"

\* Rounding allowance for a sum of |labels| <= 3 normalised entries: each of
\* the additions, the inversion and the scaling is off by at most half a unit
\* in the last place (5 * 10^-4 relative), 2 * 3 roundings in all.
TOLERANCE == Norm(3, -3)

\* d is a distribution over exactly the Label Space.
IsDistribution(d) ==
    /\ DOMAIN d = Range(labels)
    /\ \A l \in Range(labels) : d[l][1] >= 0 /\ FLeq(d[l], One)
    /\ FLeq(FAbsDiff(SumValues(d, labels, Len(labels)), One), TOLERANCE)

\* C1: a non-empty ledger with a Review whose label is outside the (non-empty)
\* Label Space ends in a ConfigurationError raised before the first E-step
\* runs: no pass of the E-step fills new_posteriors, the run never returns, and
\* the only exception it ends with is ConfigurationError.
C1_UnknownLabelIsConfigurationError ==
    (Len(reviews) > 0 /\ Len(labels) > 0 /\ HasUnknownLabel) =>
        /\ DOMAIN new_posteriors = {}
        /\ ~Returned
        /\ pc = "raised" => raised = "ConfigurationError"

\* C2: a non-empty ledger run with an empty Label Space ends in a
\* ConfigurationError raised before any EM iteration: no pass of an E-step has
\* run, the run never returns, and the only exception it ends with is
\* ConfigurationError.
C2_EmptyLabelSpaceIsConfigurationError ==
    (Len(reviews) > 0 /\ Len(labels) = 0) =>
        /\ DOMAIN new_posteriors = {}
        /\ ~Returned
        /\ pc = "raised" => raised = "ConfigurationError"

\* C3: for an empty ledger, whatever the Label Space, the run returns an empty
\* result list and an empty Model, raises nothing and enters no EM iteration.
C3_EmptyLedgerReturnsEmpty ==
    Len(reviews) = 0 =>
        /\ pc \in {"start", "done"}
        /\ raised = ""
        /\ iteration = 0
        /\ Returned => /\ Len(results) = 0
                       /\ DOMAIN model.priors = {}
                       /\ DOMAIN model.confusion_matrices = {}

C3_Witness ==
    /\ Len(reviews) = 0
    /\ labels = DEFAULT_LABELS
    /\ Returned

\* C4: the outputs of a valid run are those of every run on the same ledger and
\* Label Space, whatever order the set of items and the set of reviewers are
\* iterated in: the same list of results and the same Model.
C4_OutputsIndependentOfIterationOrder ==
    (Returned /\ ValidRun) =>
        \A io \in Orders(ItemsOf(reviews)), ro \in Orders(ReviewersOf(reviews)) :
            LET other == RunOutput(reviews, labels, io, ro)
            IN  other.results = results /\ other.model = model

\* C5: in a valid run every item's Posterior, at every iteration boundary, while
\* an E-step fills the new ones and in every returned result, is a distribution
\* over exactly the Label Space (entries in [0,1], summing to 1), and so is the
\* Prior, initially and after every M-step.
C5_PosteriorsAndPriorAreDistributions ==
    (ValidRun /\ pc # "start") =>
        /\ DOMAIN posteriors = Range(items)
        /\ \A item \in DOMAIN posteriors : IsDistribution(posteriors[item])
        /\ \A item \in DOMAIN new_posteriors : IsDistribution(new_posteriors[item])
        /\ \A i \in 1..Len(results) : IsDistribution(results[i].posterior)
        /\ IsDistribution(priors)

C5_Witness ==
    /\ ValidRun
    /\ Returned
    /\ iteration > 1
    /\ \E i \in 1..Len(results) :
          \E l \in Range(labels) : FLess(Norm(9, -1), results[i].posterior[l])
    /\ \E l \in Range(labels) : FLess(Norm(5, -1), priors[l])

\* C6: in a valid run, from initialisation on and after every M-step, every row
\* of every reviewer's Confusion Matrix is a distribution over the Label Space
\* and every cell of it is strictly positive.
C6_ConfusionRowsPositiveDistributions ==
    (ValidRun /\ pc # "start") =>
        /\ DOMAIN confusion = Range(reviewers)
        /\ \A r \in DOMAIN confusion :
              /\ DOMAIN confusion[r] = Range(labels)
              /\ \A l \in Range(labels) :
                    /\ IsDistribution(confusion[r][l])
                    /\ \A obs \in Range(labels) : confusion[r][l][obs][1] > 0

C6_Witness ==
    /\ ValidRun
    /\ pc = "estep"
    /\ iteration = 2
    /\ \E r \in DOMAIN confusion :
          \E l \in Range(labels) : confusion[r][l] # _initialize_confusion({r}, labels)[r][l]

\* The thresholds as the specification configures them.
ConfiguredThreshold(label) == IF label = "PASS" THEN Norm(80, -2) ELSE Norm(70, -2)

\* C7: in every returned result whose winning label is PASS, FIX or REJECT,
\* needs_sme is true exactly when the confidence is strictly below 0.80 for
\* PASS and 0.70 for FIX and REJECT; a confidence equal to the threshold is
\* not escalated.
C7_EscalatedIffBelowThreshold ==
    Returned =>
        \A i \in 1..Len(results) :
            results[i].label \in {"PASS", "FIX", "REJECT"} =>
                (results[i].needs_sme <=>
                    FLess(results[i].confidence, ConfiguredThreshold(results[i].label)))

C7_Witness ==
    /\ Returned
    /\ \E i \in 1..Len(results) :
          /\ results[i].label = "PASS"
          /\ results[i].confidence = Norm(80, -2)
          /\ ~results[i].needs_sme

\* C8: a result whose winning label has no configured threshold is escalated
\* exactly when its confidence is below 1.0.
C8_UnconfiguredLabelNeedsCertainty ==
    Returned =>
        \A i \in 1..Len(results) :
            results[i].label \notin {"PASS", "FIX", "REJECT"} =>
                (results[i].needs_sme <=> FLess(results[i].confidence, One))

C8_Witness ==
    /\ Returned
    /\ \E i \in 1..Len(results) :
          /\ results[i].label = "MAYBE"
          /\ results[i].confidence = Norm(9, -1)
          /\ results[i].needs_sme

\* C9: in every returned result the winning label is a label of the Label
\* Space that no label exceeds in the item's final Posterior, the confidence is
\* the final posterior mass of the winning label and lies in [0,1], and the
\* posterior of the result is the item's final Posterior.
C9_WinnerIsMaximalAndConfidenceItsMass ==
    Returned =>
        \A i \in 1..Len(results) :
            LET r == results[i]
                final == posteriors[r.item_id]
            IN  /\ r.label \in Range(labels)
                /\ \A l \in Range(labels) : FLeq(final[l], final[r.label])
                /\ r.confidence = final[r.label]
                /\ r.confidence[1] >= 0 /\ FLeq(r.confidence, One)
                /\ r.posterior = final

C9_Witness ==
    /\ Returned
    /\ ValidRun
    /\ \E i \in 1..Len(results) :
          /\ results[i].label = "FIX"
          /\ \A l \in Range(labels) \ {"FIX"} :
                FLess(posteriors[results[i].item_id][l], results[i].confidence)

\* C10: when several labels share the maximal final posterior mass of an item,
\* the winner is the one that comes first in the Label Space, whatever the
\* order of the Reviews and the orders items and reviewers are iterated in.
C10_TiesGoToFirstLabelOfLabelSpace ==
    Returned =>
        \A i \in 1..Len(results) :
            \A j, k \in 1..Len(labels) :
                (/\ labels[k] = results[i].label
                 /\ posteriors[results[i].item_id][labels[j]] = results[i].confidence
                 /\ j # k) => k < j

C10_Witness ==
    /\ Returned
    /\ ValidRun
    /\ labels = DEFAULT_LABELS
    /\ \E i \in 1..Len(results) :
          /\ results[i].label = "FIX"
          /\ posteriors[results[i].item_id]["REJECT"] = results[i].confidence
          /\ FLess(posteriors[results[i].item_id]["PASS"], results[i].confidence)

\* C11: a run on a valid, non-empty ledger returns exactly one ConsensusResult
\* for each distinct item_id of the ledger: every item of the ledger has a
\* result, every result is for an item of the ledger, and no item has two.
C11_OneResultPerItem ==
    (Returned /\ ValidRun /\ Len(reviews) > 0) =>
        /\ {results[i].item_id : i \in 1..Len(results)} = ItemsOf(reviews)
        /\ \A i, j \in 1..Len(results) :
              results[i].item_id = results[j].item_id => i = j

\* A returned valid run whose ledger holds two Reviews of one item.
C11_Witness ==
    /\ Returned
    /\ ValidRun
    /\ Len(reviews) = 2
    /\ Cardinality(ItemsOf(reviews)) = 1
    /\ Len(results) = 1

\* The convergence test of the iteration whose E-step has just ended succeeds.
Converged == FLess(Delta(new_posteriors, posteriors, Range(items), labels), EPS)

\* C12: every valid run terminates: it returns, and raises nothing; the number
\* of E-steps it starts is at least 1 and at most MAX_ITERATIONS; the loop is
\* left exactly when the convergence test succeeds or when the M-step of
\* iteration MAX_ITERATIONS has ended, whichever comes first; and the results
\* are read from the posteriors of the last E-step that ran.
C12_ValidRunTerminates ==
    /\ (ValidRun ~> Returned)
    /\ [](ValidRun => /\ raised = ""
                      /\ pc # "raised"
                      /\ iteration \in 0..MAX_ITERATIONS
                      /\ (pc # "start" => iteration >= 1))
    /\ [][ValidRun =>
            /\ (pc = "delta" => (pc' = "decide" <=> Converged))
            /\ (pc = "mconfusion" /\ idx = Len(reviewers) =>
                   (pc' = "decide" <=> iteration = MAX_ITERATIONS))
            /\ (pc' = "decide" =>
                   \/ pc = "delta"
                   \/ pc = "mconfusion" /\ idx = Len(reviewers))]_vars
    /\ [](Returned /\ ValidRun =>
            /\ DOMAIN results = 1..Len(items)
            /\ \A i \in 1..Len(results) :
                  /\ results[i].item_id = items[i]
                  /\ results[i].confidence =
                        new_posteriors[items[i]][results[i].label])

\* A valid run that has returned after MAX_ITERATIONS E-steps with the M-step
\* of the last iteration done (the Model holds the priors re-estimated from
\* the final posteriors) and one more E-step would still have moved the
\* posteriors by EPS or more: the budget ended the loop, not convergence.
C12_Witness ==
    /\ Returned
    /\ ValidRun
    /\ raised = ""
    /\ iteration = MAX_ITERATIONS
    /\ Len(results) = Len(items)
    /\ model.priors = MStepPriors(posteriors, items, labels)
    /\ ~FLess(Delta(EStepAll(reviews, labels, priors, confusion), posteriors,
                    Range(items), labels), EPS)

\* Every Review of the ledger carries the same label.
Unanimous == \A i, j \in 1..Len(reviews) : reviews[i].label = reviews[j].label

\* C13: when every Review of a valid ledger carries the same label L, the
\* winning label of every item in the results is L.
C13_UnanimousLabelWins ==
    (Returned /\ ValidRun /\ Unanimous) =>
        \A i \in 1..Len(results) : results[i].label = reviews[1].label

\* A returned run over two items, each reviewed once, both Reviews "REJECT":
\* the unanimous label is the last of the Label Space, so no tie-break
\* favours it.
C13_Witness ==
    /\ Returned
    /\ ValidRun
    /\ Unanimous
    /\ labels = DEFAULT_LABELS
    /\ Len(reviews) = 2
    /\ reviews[1].label = "REJECT"
    /\ Len(results) = 2
    /\ \A i \in 1..2 : results[i].label = "REJECT"

\* The run has returned a result for the item: the result itself.
ResultOf(item) == results[CHOOSE i \in 1..Len(results) : results[i].item_id = item]
HasResult(item) == \E i \in 1..Len(results) : results[i].item_id = item

\* C14: for the ledger consisting of three Reviews of item "X1" by three
\* distinct reviewers, all "PASS", under the default Label Space, the result
\* for X1 has label "PASS", confidence >= 0.80 and needs_sme = false.
C14_UnanimousPassIsAccepted ==
    (Returned /\ labels = DEFAULT_LABELS /\ reviews = UnanimousReviews("X1", "PASS")) =>
        /\ Len(results) = 1
        /\ HasResult("X1")
        /\ ResultOf("X1").label = "PASS"
        /\ FLeq(Norm(80, -2), ResultOf("X1").confidence)
        /\ ResultOf("X1").needs_sme = FALSE

\* The run on the three unanimous "PASS" Reviews of X1 has returned, after at
\* least one M-step (the reviewers' matrices were re-estimated).
C14_Witness ==
    /\ Returned
    /\ labels = DEFAULT_LABELS
    /\ reviews = UnanimousReviews("X1", "PASS")
    /\ iteration >= 2
    /\ HasResult("X1")
    /\ ResultOf("X1").label = "PASS"
    /\ ~ResultOf("X1").needs_sme

\* Item "X2" has exactly two Reviews, by two distinct reviewers, one "FIX" and
\* one "REJECT".
X2IsSplit ==
    \E i, j \in 1..Len(reviews) :
        /\ i # j
        /\ \A k \in 1..Len(reviews) : reviews[k].item_id = "X2" <=> k \in {i, j}
        /\ reviews[i].reviewer_id # reviews[j].reviewer_id
        /\ reviews[i].label = "FIX"
        /\ reviews[j].label = "REJECT"

\* The result for X2 is escalated on a confidence below 0.70.
X2IsEscalated ==
    /\ HasResult("X2")
    /\ FLess(ResultOf("X2").confidence, Norm(70, -2))
    /\ ResultOf("X2").needs_sme = TRUE

\* C15 as stated: for any ledger in which item "X2" has exactly two Reviews by
\* two distinct reviewers, one "FIX" and one "REJECT", under the default Label
\* Space, the result for X2 has confidence < 0.70 and needs_sme = true.
C15_SplitItemIsEscalated ==
    (Returned /\ labels = DEFAULT_LABELS /\ X2IsSplit) => X2IsEscalated

\* The ledger holds nothing but the two Reviews of X2, or holds them after
\* the three unanimous "PASS" Reviews of X1.
OnlySplitOrAfterUnanimousPass ==
    \E a, b \in {"FIX", "REJECT"} :
        /\ a # b
        /\ \/ reviews = SplitReviews(a, b)
           \/ reviews = UnanimousReviews("X1", "PASS") \o SplitReviews(a, b)

\* C15 (amended): for the ledger consisting of exactly two Reviews of "X2" by
\* two distinct reviewers, one "FIX" and one "REJECT", alone or preceded only
\* by the three unanimous "PASS" Reviews of "X1", under the default Label
\* Space, the result for X2 has confidence < 0.70 and needs_sme = true.
C15_SplitAloneIsEscalated ==
    (Returned /\ labels = DEFAULT_LABELS /\ X2IsSplit /\ OnlySplitOrAfterUnanimousPass) =>
        X2IsEscalated

\* The run on the two Reviews of X2 alone has returned and escalates X2.
C15_Witness ==
    /\ Returned
    /\ labels = DEFAULT_LABELS
    /\ reviews = SplitReviews("FIX", "REJECT")
    /\ X2IsSplit
    /\ X2IsEscalated

\* C16: the run treats its inputs as read-only: no step of the run (the
\* initialisation, an E-step pass, the convergence test, an M-step pass, the
\* decision) changes the caller's sequence of Reviews, any field of a Review,
\* or the Label Space. (ROUTING_THRESHOLDS is a module constant the function
\* only reads with .get: a constant of the model.)
C16_LedgerIsReadOnly ==
    [][/\ reviews' = reviews
       /\ labels' = labels
       /\ \A i \in 1..Len(reviews) :
             /\ reviews'[i].item_id = reviews[i].item_id
             /\ reviews'[i].reviewer_id = reviews[i].reviewer_id
             /\ reviews'[i].label = reviews[i].label]_vars

\* A run that went through the initialisation, E-steps, M-steps and the
\* decision has returned, and its ledger is a two-Review ledger of the inputs.
C16_Witness ==
    /\ Returned
    /\ iteration >= 2
    /\ Len(results) > 0
    /\ reviews \in Ledgers
    /\ Len(reviews) = 2
    /\ labels \in LabelSpaces

\* Prior[label] times ConfusionMatrix[reviewer][label][observed] for each of
\* the first n Reviews of the ledger that is a Review of the item, one factor
\* per Review, multiplied in ledger order.
RECURSIVE ScoreOf(_, _, _)
ScoreOf(item, label, n) ==
    IF n = 0 THEN priors[label]
    ELSE IF reviews[n].item_id = item
         THEN FMul(ScoreOf(item, label, n - 1),
                   confusion[reviews[n].reviewer_id][label][reviews[n].label])
         ELSE ScoreOf(item, label, n - 1)

\* The scores of the item for the first k labels of the Label Space, added up.
RECURSIVE ScoreTotal(_, _)
ScoreTotal(item, k) ==
    IF k = 0 THEN Zero
    ELSE FAdd(ScoreTotal(item, k - 1), ScoreOf(item, labels[k], Len(reviews)))

\* C17: an E-step pass of a valid run gives the item, for every label, the
\* posterior Prior[label] * PRODUCT ConfusionMatrix[reviewer][label][observed]
\* over all Reviews of the item (one factor per Review, so a repeated
\* (item, reviewer) Review counts once per occurrence), scaled by the inverse
\* of the sum of these scores over the labels.
C17_EStepIsNormalizedProductOverReviews ==
    [][(pc = "estep" /\ ValidRun) =>
          /\ DOMAIN new_posteriors'[items[idx]] = Range(labels)
          /\ \A l \in Range(labels) :
                new_posteriors'[items[idx]][l] =
                    FMul(ScoreOf(items[idx], l, Len(reviews)),
                         FDiv(One, ScoreTotal(items[idx], Len(labels))))]_vars

\* The first E-step of a valid run over a ledger that holds the same Review
\* twice has ended, and the posterior of the item differs from the one the
\* E-step gives for the ledger with that Review once.
C17_Witness ==
    /\ pc = "delta"
    /\ ValidRun
    /\ iteration = 1
    /\ Len(reviews) = 2
    /\ reviews[1] = reviews[2]
    /\ new_posteriors["X1"] # EStepItem("X1", <<reviews[1]>>, labels, priors, confusion)

\* No posterior mass of the E-step's result is EPS or more away from the
\* previous one: the maximum absolute change is below EPS.
MaxChangeBelowEps ==
    \A item \in Range(items), l \in Range(labels) :
        FLess(FAbsDiff(new_posteriors[item][l], posteriors[item][l]), EPS)

\* C18: in each iteration of a valid run, after the E-step, the new posteriors
\* are compared with the previous ones (the uniform ones in the first
\* iteration, the previous E-step's afterwards); when the maximum absolute
\* change is below EPS the loop stops and neither the priors nor a reviewer's
\* matrix is re-estimated in that iteration; otherwise the M-step runs exactly
\* once (the priors once, then each reviewer's matrix once) before the next
\* E-step starts.
C18_ConvergenceTestGatesTheMStep ==
    [][ValidRun =>
          /\ (pc = "delta" /\ iteration = 1 =>
                 \A item \in Range(items), l \in Range(labels) :
                     posteriors[item][l] = FDiv(One, FromInt(Len(labels))))
          /\ (pc = "delta" =>
                 /\ posteriors' = new_posteriors
                 /\ UNCHANGED <<priors, confusion, iteration>>
                 /\ pc' = IF MaxChangeBelowEps THEN "decide" ELSE "mpriors")
          /\ (pc = "decide" => pc' = "done" /\ UNCHANGED <<priors, confusion, posteriors>>)
          /\ (pc = "mpriors" =>
                 /\ pc' = "mconfusion" /\ idx' = 1
                 /\ UNCHANGED <<confusion, posteriors, iteration>>)
          /\ (pc = "mconfusion" =>
                 /\ UNCHANGED <<priors, posteriors>>
                 /\ \A r \in Range(reviewers) \ {reviewers[idx]} :
                       confusion'[r] = confusion[r]
                 /\ IF idx < Len(reviewers)
                    THEN pc' = "mconfusion" /\ idx' = idx + 1 /\ UNCHANGED iteration
                    ELSE \/ pc' = "estep" /\ iteration' = iteration + 1
                         \/ pc' = "decide" /\ iteration = MAX_ITERATIONS)
          /\ (pc = "estep" => pc' \in {"estep", "delta"}
                              /\ UNCHANGED <<priors, confusion, iteration>>)]_vars

\* The loop of a valid run has stopped on the convergence test of an
\* iteration after the first and before the last of the budget: at least one
\* M-step ran, and none in the iteration that converged.
C18_Witness ==
    /\ pc = "decide"
    /\ ValidRun
    /\ iteration >= 2
    /\ iteration < MAX_ITERATIONS
    /\ posteriors = new_posteriors

\* C19: within one iteration of a valid run, no E-step pass modifies the
\* priors, a reviewer's matrix or the previous posteriors, and when the E-step
\* has ended every item's new posterior is the one computed from the priors
\* and matrices the iteration started with; the M-step starts from the
\* complete set of posteriors of that E-step (one for every item of the
\* ledger), leaves it untouched, and re-estimates the priors and each
\* reviewer's matrix from that set alone: the result does not depend on the
\* priors or on a matrix already re-estimated.
C19_SnapshotIsolation ==
    [][ValidRun =>
          /\ (pc = "estep" =>
                 /\ UNCHANGED <<priors, confusion, posteriors>>
                 /\ \A i \in 1..(idx - 1) :
                       new_posteriors'[items[i]] = new_posteriors[items[i]])
          /\ (pc = "delta" =>
                 /\ DOMAIN new_posteriors = ItemsOf(reviews)
                 /\ \A item \in ItemsOf(reviews) :
                       new_posteriors[item] =
                           EStepItem(item, reviews, labels, priors, confusion))
          /\ (pc \in {"mpriors", "mconfusion"} =>
                 /\ posteriors = new_posteriors
                 /\ DOMAIN posteriors = ItemsOf(reviews)
                 /\ UNCHANGED <<posteriors, new_posteriors>>)
          /\ (pc = "mpriors" =>
                 priors' = MStepPriors(new_posteriors, items, labels))
          /\ (pc = "mconfusion" =>
                 confusion'[reviewers[idx]] =
                     MStepReviewer(reviewers[idx], reviews, labels, new_posteriors))]_vars

\* The M-step of the second iteration of a valid run over two items and two
\* reviewers is re-estimating the second reviewer's matrix: the priors and the
\* first reviewer's matrix are already re-estimated, the posteriors are those
\* of the iteration's E-step and differ from the previous iteration's.
C19_Witness ==
    /\ pc = "mconfusion"
    /\ ValidRun
    /\ iteration = 2
    /\ Len(items) = 2
    /\ Len(reviewers) = 2
    /\ idx = 2
    /\ posteriors = new_posteriors
    /\ priors # _initialize_priors(labels)

\* The posterior mass of the label summed over the first n items.
RECURSIVE MassOf(_, _)
MassOf(l, n) ==
    IF n = 0 THEN Zero ELSE FAdd(MassOf(l, n - 1), posteriors[items[n]][l])

\* C20: the priors an M-step leaves are, for every label, the sum over the
\* distinct items of the ledger of the current posterior mass of the label,
\* divided by the number of distinct items (up to the rounding of the float
\* operations: the code divides by the sum of all the masses), whatever the
\* number of Reviews of each item.
C20_PriorIsAverageOfPosteriors ==
    [][pc = "mpriors" =>
          /\ Range(items) = ItemsOf(reviews)
          /\ Len(items) = Cardinality(ItemsOf(reviews))
          /\ DOMAIN priors' = Range(labels)
          /\ \A l \in Range(labels) :
                FLeq(FAbsDiff(priors'[l],
                              FDiv(MassOf(l, Len(items)), FromInt(Len(items)))),
                     TOLERANCE)]_vars

\* An M-step has re-estimated the priors of a run over two items, one with
\* two Reviews and one with one, whose posteriors differ.
C20_Witness ==
    /\ pc = "mconfusion"
    /\ idx = 1
    /\ Len(reviews) = 3
    /\ Len(items) = 2
    /\ posteriors["X1"] # posteriors["X2"]
    /\ priors = MStepPriors(posteriors, items, labels)

\* SMOOTHING plus the posterior mass of the true label t of the item of every
\* Review, among the first n of the ledger, that reviewer r gave with the
\* observed label o; added in ledger order.
RECURSIVE CellCount(_, _, _, _)
CellCount(r, t, o, n) ==
    IF n = 0 THEN SMOOTHING
    ELSE IF reviews[n].reviewer_id = r /\ reviews[n].label = o
         THEN FAdd(CellCount(r, t, o, n - 1), posteriors[reviews[n].item_id][t])
         ELSE CellCount(r, t, o, n - 1)

\* The cell counts of row t of reviewer r over the first k observed labels of
\* the Label Space, added up.
RECURSIVE RowTotal(_, _, _)
RowTotal(r, t, k) ==
    IF k = 0 THEN Zero
    ELSE FAdd(RowTotal(r, t, k - 1), CellCount(r, t, labels[k], Len(reviews)))

\* C21: an M-step pass of a valid run leaves reviewer r with the matrix whose
\* cell [t][o] is (SMOOTHING + the posterior mass of t summed over every
\* Review by r with observed label o) divided by the sum of that quantity
\* over all observed labels (the division done, as in _normalize, by
\* multiplying with the inverse of the sum); it counts the Reviews of r alone
\* and leaves every other reviewer's matrix as it was.
C21_ConfusionIsSmoothedRowNormalizedCounts ==
    [][(pc = "mconfusion" /\ ValidRun) =>
          /\ DOMAIN confusion' = Range(reviewers)
          /\ \A r \in Range(reviewers) \ {reviewers[idx]} : confusion'[r] = confusion[r]
          /\ \A t, o \in Range(labels) :
                confusion'[reviewers[idx]][t][o] =
                    FMul(CellCount(reviewers[idx], t, o, Len(reviews)),
                         FDiv(One, RowTotal(reviewers[idx], t, Len(labels))))]_vars

\* The first M-step of a valid run over two reviewers who gave different
\* labels has ended: the two matrices, equal at the start, now differ.
C21_Witness ==
    /\ pc = "estep"
    /\ ValidRun
    /\ iteration = 2
    /\ idx = 1
    /\ Len(reviewers) = 2
    /\ reviews[1].label # reviews[2].label
    /\ confusion["r1"] # confusion["r2"]

\* 1 + (k - 1) * SMOOTHING for the k labels of the Label Space.
NearIdentityTotal == FAdd(One, FMul(FromInt(Len(labels) - 1), SMOOTHING))

\* The run is in its first E-step: nothing has been re-estimated yet.
BeforeFirstMStep == pc = "estep" /\ iteration = 1

\* C22: during the first E-step of a run the priors are uniform over the Label
\* Space, there is one confusion matrix for each reviewer_id of the ledger and
\* for no other, and every matrix has 1/(1+(k-1)*SMOOTHING) on the diagonal
\* and SMOOTHING/(1+(k-1)*SMOOTHING) off it (so all are equal); and an M-step
\* pass that re-estimates one reviewer's matrix changes no other reviewer's.
C22_InitialModelIsUniformAndNearIdentity ==
    /\ [](BeforeFirstMStep =>
            /\ DOMAIN priors = Range(labels)
            /\ \A l \in Range(labels) : priors[l] = FDiv(One, FromInt(Len(labels)))
            /\ DOMAIN confusion = ReviewersOf(reviews)
            /\ \A r \in ReviewersOf(reviews) :
                  /\ DOMAIN confusion[r] = Range(labels)
                  /\ \A t \in Range(labels) :
                        /\ DOMAIN confusion[r][t] = Range(labels)
                        /\ \A o \in Range(labels) :
                              confusion[r][t][o] =
                                  IF o = t THEN FDiv(One, NearIdentityTotal)
                                  ELSE FDiv(SMOOTHING, NearIdentityTotal)
            /\ \A r, s \in ReviewersOf(reviews) : confusion[r] = confusion[s])
    /\ [][pc = "mconfusion" /\ pc' # "raised" =>
            /\ DOMAIN confusion' = DOMAIN confusion
            /\ \A r \in DOMAIN confusion \ {reviewers[idx]} :
                  confusion'[r] = confusion[r]]_vars

\* The first E-step of a run over two reviewers and the default Label Space
\* is under way, with the near-identity matrices in place.
C22_Witness ==
    /\ BeforeFirstMStep
    /\ labels = DEFAULT_LABELS
    /\ DOMAIN confusion = {"r1", "r2"}
    /\ confusion["r2"]["FIX"]["FIX"] = FDiv(One, NearIdentityTotal)
    /\ confusion["r2"]["FIX"]["PASS"] = FDiv(SMOOTHING, NearIdentityTotal)
    /\ priors["REJECT"] = FDiv(One, FromInt(3))

\* Relative error allowed between a float result and the quotient it stands
\* for: four roundings of half a unit in the last place.
RELATIVE_TOLERANCE == Norm(2, -3)

\* a is b up to the relative rounding error.
Close(a, b) == FLeq(FAbsDiff(a, b), FMul(RELATIVE_TOLERANCE, b))

\* C23: _normalize applied to a dict over a non-empty label set whose values
\* are all zero (total zero) leaves the uniform distribution, 1/k for each of
\* the k labels; applied to a dict with a positive total it leaves every
\* entry divided by the total, and the ratio between any two entries is the
\* ratio they had (both up to float rounding).
C23_NormalizeFallsBackToUniform ==
    [][pc = "mpriors" =>
          LET dist == posteriors[items[1]]
              total == SumValues(dist, labels, Len(labels))
          IN  /\ DOMAIN priors' = Range(labels)
              /\ total = Zero =>
                    \A l \in Range(labels) : priors'[l] = FDiv(One, FromInt(Len(labels)))
              /\ FLess(Zero, total) =>
                    /\ \A l \in Range(labels) : Close(priors'[l], FDiv(dist[l], total))
                    /\ \A a, b \in Range(labels) :
                          Close(FMul(priors'[a], dist[b]), FMul(priors'[b], dist[a]))]_vars

\* _normalize has been applied to a dict of three zeros and has left the
\* uniform distribution.
C23_Witness ==
    /\ pc = "mconfusion"
    /\ labels = DEFAULT_LABELS
    /\ \A l \in Range(labels) : posteriors["X1"][l] = Zero
    /\ \A l \in Range(labels) : priors[l] = FDiv(One, FromInt(3))

\* Rounding allowed between two computations of a posterior mass: five units
\* in the last place of a mass between 0.1 and 1.
ROUNDING == Norm(5, -4)

\* C24: when a valid run has returned, whether the loop ended on convergence
\* or with the iteration budget, one E-step applied to the returned Model
\* (its priors and confusion matrices) and the ledger reproduces the posterior
\* of every returned ConsensusResult (every mass up to less than ROUNDING).
C24_ReturnedModelReproducesPosteriors ==
    (Returned /\ ValidRun) =>
        \A i \in 1..Len(results) :
            \A l \in Range(labels) :
                FLess(FAbsDiff(EStepItem(results[i].item_id, reviews, labels,
                                         model.priors, model.confusion_matrices)[l],
                               results[i].posterior[l]),
                      ROUNDING)

====
